---- MODULE Spec2Model ----
(***************************************************************************)
(* Model of zap: the blind relay (src/src/relay/server.rs) and the direct  *)
(* transfer protocol (src/src/main.rs, src/src/transfer/mod.rs,            *)
(* src/src/crypto/mod.rs, src/src/protocol/mod.rs).                        *)
(***************************************************************************)
EXTENDS Naturals, Sequences, FiniteSets, TLC

(***************************************************************************)
(* Bounds of the model.                                                    *)
(***************************************************************************)
\* connections the relay accepts
MaxSessions == 3
\* distinct binary payloads a client may send
MaxPayload == 2
\* messages other than Pong the relay puts on all channels together
MaxSent == 4
\* Pings the relay answers
MaxPing == 1

\* longest source file, in bytes
MaxFile == 3
\* bytes per chunk (CHUNK_SIZE, 64 * 1024 in transfer/mod.rs, scaled down)
CHUNK_SIZE == 2
\* times another process rewrites the source file during a transfer
MaxEdits == 1

Sessions == 1..MaxSessions
Payloads == 1..MaxPayload

\* Option::None of the handler locals code_hash and role
None == "none"
\* no handler holds the PeerMap mutex
NoSession == 0

Roles == {"sender", "receiver"}
\* blake3 hex digests as clients send them (hash_code), and a code_hash of
\* fewer than 8 characters, which only a foreign client can send
CodeHashes == {"aaaaaaaa", "bbbbbbbb"}
ShortHashes == {"abc"}

(***************************************************************************)
(* RelayMessage (relay/protocol.rs) and websocket items.                   *)
(***************************************************************************)
Register(r, ch) == [type |-> "register", role |-> r, code_hash |-> ch]
Matched == [type |-> "matched"]
Ping == [type |-> "ping"]
Pong == [type |-> "pong"]
Error(m) == [type |-> "error", message |-> m]
\* a text frame that is not the JSON of any RelayMessage
Invalid == [type |-> "invalid"]

ErrSameRole == "Both peers have the same role"
ErrExpectedRegister == "Expected Register message"

Text(m) == [kind |-> "text", msg |-> m]
Binary(d) == [kind |-> "binary", data |-> d]
Close == [kind |-> "close"]
\* websocket Ping/Pong/Frame items: the `_ => {}` arm
OtherFrame == [kind |-> "other"]
\* ws_receiver.next() returned None, or Some(Err(_))
EndOfStream == [kind |-> "eos"]
ReadError == [kind |-> "err"]
NoMsg == [kind |-> "none"]

\* RelayMessage::from_json: Err for a text that is no RelayMessage
FromJsonOk(t) == t.type # "invalid"

\* what ws_receiver.next() can yield for one session, by match arm
RegisterItems ==
    {Text(Register(r, ch)) : r \in Roles, ch \in CodeHashes \cup ShortHashes}
TextItems == RegisterItems \cup {Text(Ping), Text(Matched), Text(Invalid)}
BinaryItems == {Binary(d) : d \in Payloads}
LeaveItems == {Close, EndOfStream}

(***************************************************************************)
(* PeerMap = HashMap<String, Peer>: a set of (key, value) records; tx is   *)
(* the session whose channel the Peer holds                                *)
(***************************************************************************)
Peer(ch, r, s) == [code_hash |-> ch, role |-> r, tx |-> s]

\* HashMap::get: the entries under the key
PeersGet(ps, ch) == {p \in ps : p.code_hash = ch}

\* HashMap::insert: replaces the entry under the key
PeersInsert(ps, ch, r, s) == {p \in ps : p.code_hash # ch} \cup {Peer(ch, r, s)}

\* HashMap::remove
PeersRemove(ps, ch) == {p \in ps : p.code_hash # ch}

VARIABLES
    peers,      \* the PeerMap
    lock,       \* the session whose handler holds the PeerMap mutex
    pc,         \* each handler's position in handle_connection
    msg,        \* the item the handler is matching on while it holds the mutex
    found,      \* other_peer: what peers_lock.get returned
    code_hash,  \* the handler's local code_hash
    role,       \* the handler's local role
    sent,       \* every message put on the session's channel (tx.send)
    fwd,        \* how many of them forward_task has written to the socket
    ftask       \* forward_task: "running" or "stopped"

relayVars ==
    <<peers, lock, pc, msg, found, code_hash, role, sent, fwd, ftask>>

VARIABLES
    file,        \* the bytes of the source file on the sender's disk
    edits,       \* how many times another process has rewritten it
    s_pc,        \* the sender's position in send_file
    s_code,      \* send_file: code
    s_version,   \* PROTOCOL_VERSION of the sender's build
    metadata,    \* send_file: metadata.size
    chunker,     \* FileChunker: total_size and bytes_read
    chunk_index, \* send_file: chunk_index
    r_pc,        \* the receiver's position in receive_file
    r_code,      \* receive_file: code
    r_version,   \* PROTOCOL_VERSION of the receiver's build
    resume,      \* receive_file: resume
    durable,     \* chunks an earlier attempt left in the output file
    file_size,   \* receive_file: file_size
    writer,      \* FileWriter: bytes_written and expected_size
    sink,        \* the bytes of the output file
    s2r,         \* every frame the sender has passed to conn.send
    r2s,         \* every frame the receiver has passed to conn.send
    s_got,       \* how many frames conn.receive has returned to the sender
    r_got        \* how many frames conn.receive has returned to the receiver

transferVars ==
    <<file, edits, s_pc, s_code, s_version, metadata, chunker, chunk_index,
      r_pc, r_code, r_version, resume, durable, file_size, writer, sink,
      s2r, r2s, s_got, r_got>>

VARIABLE
    call         \* the last call of a library function: its inputs and result

vars == <<relayVars, transferVars, call>>

\* run_relay_server and the head of handle_connection (server.rs:34-66):
\* an empty PeerMap, and every accepted session at the top of its loop
InitRelay ==
    /\ peers = {}
    /\ lock = NoSession
    /\ pc = [s \in Sessions |-> "loop"]
    /\ msg = [s \in Sessions |-> NoMsg]
    /\ found = [s \in Sessions |-> {}]
    /\ code_hash = [s \in Sessions |-> None]
    /\ role = [s \in Sessions |-> None]
    /\ sent = [s \in Sessions |-> <<>>]
    /\ fwd = [s \in Sessions |-> 0]
    /\ ftask = [s \in Sessions |-> "running"]

\* tx.send on the unbounded channel: fails, and is ignored (`let _ =`),
\* once the receiving half is gone with forward_task
TxSend(q, t, m) ==
    IF ftask[t] = "running" THEN [q EXCEPT ![t] = Append(q[t], m)] ELSE q

\* how often m is in the sequence
NumIn(seq, m) == Cardinality({i \in DOMAIN seq : seq[i] = m})

RECURSIVE SumOver(_, _)
SumOver(f, S) ==
    IF S = {} THEN 0
    ELSE LET s == CHOOSE x \in S : TRUE IN f[s] + SumOver(f, S \ {s})

PongsSent(q) == SumOver([t \in Sessions |-> NumIn(q[t], Text(Pong))], Sessions)
OthersSent(q) == SumOver([t \in Sessions |-> Len(q[t])], Sessions) - PongsSent(q)

\* a channel of capacity 1: a send waits while forward_task has not yet
\* written the message before it to the socket
SendRoomBounded(q) ==
    /\ PongsSent(q) <= MaxPing /\ OthersSent(q) <= MaxSent
    /\ \A t \in Sessions : Len(q[t]) - fwd[t] <= 1

\* the runs explored answer at most MaxPing Pings and put at most MaxSent
\* other messages on the channels
SendRoom(q) == PongsSent(q) <= MaxPing /\ OthersSent(q) <= MaxSent

\* a handler that goes on without waiting for the mutex
LockIgnored == TRUE

\* peers.lock().await returns only when no handler holds the mutex
LockFree == lock = NoSession

IsRegister(m) == m.kind = "text" /\ m.msg.type = "register"

\* line 76: &ch[..8] panics on a code_hash of fewer than 8 bytes
RegisterPanics(ch) == Len(ch) < 8

(***************************************************************************)
(* The relay treats sessions, code hashes and roles alike, so the runs     *)
(* explored name them in the order of their first use: a session acts      *)
(* once the sessions before it have, and a Register carries the second     *)
(* hash (role) only while the first is held by a handler or the PeerMap.   *)
(***************************************************************************)
Fresh(s) == pc[s] = "loop" /\ code_hash[s] = None /\ sent[s] = <<>>
InOrder(s) == \A t \in Sessions : t < s => ~Fresh(t)

HashesInUse ==
    {code_hash[t] : t \in Sessions} \cup {p.code_hash : p \in peers}
        \cup {msg[t].msg.code_hash : t \in {u \in Sessions : IsRegister(msg[u])}}
RolesInUse ==
    {role[t] : t \in Sessions} \cup {p.role : p \in peers}
        \cup {msg[t].msg.role : t \in {u \in Sessions : IsRegister(msg[u])}}
Canonical(m) ==
    /\ m.msg.code_hash = "bbbbbbbb" => "aaaaaaaa" \in HashesInUse
    /\ m.msg.role = "receiver" => "sender" \in RolesInUse

(***************************************************************************)
(* Text frames, server.rs:71-130.  Each action is one item m read by       *)
(* ws_receiver.next() at the top of the loop and what the handler does     *)
(* with it up to its next await.                                           *)
(***************************************************************************)
\* a text frame after the handshake is dropped (the `if` at line 73 fails)
TextIgnored(s, m) ==
    /\ pc[s] = "loop" /\ InOrder(s)
    /\ code_hash[s] # None
    /\ m \in TextItems
    /\ UNCHANGED vars

\* line 76: the task dies with nothing sent and nothing cleaned up
RegisterPanic(s, m) ==
    /\ pc[s] = "loop" /\ InOrder(s)
    /\ code_hash[s] = None
    /\ RegisterPanics(m.msg.code_hash)
    /\ pc' = [pc EXCEPT ![s] = "exited"]
    /\ UNCHANGED <<call, transferVars, peers, lock, msg, found, code_hash, role, sent, fwd, ftask>>

\* lines 85-88: take the mutex, peers_lock.get(&ch)
RegisterLookup(s, m) ==
    /\ pc[s] = "loop" /\ InOrder(s)
    /\ code_hash[s] = None
    /\ ~RegisterPanics(m.msg.code_hash)
    /\ LockFree
    /\ Canonical(m)
    /\ lock' = s
    /\ msg' = [msg EXCEPT ![s] = m]
    /\ found' = [found EXCEPT ![s] = PeersGet(peers, m.msg.code_hash)]
    /\ pc' = [pc EXCEPT ![s] = "locked"]
    /\ UNCHANGED <<call, transferVars, peers, code_hash, role, sent, fwd, ftask>>

\* lines 88-116: which arm the Register takes, given other_peer
RegisterOutcome(fnd, r) ==
    IF fnd = {} THEN "wait"
    ELSE IF (CHOOSE p \in fnd : TRUE).role # r THEN "match" ELSE "same_role"

\* the peer stored before other_peer is looked at, in a table that keeps
\* every registration
RegisterPeersPush(ps, fnd, ch, r, s) == ps \cup {Peer(ch, r, s)}

\* a second registration of the same role that takes the place of the first
RegisterPeersReplace(ps, fnd, ch, r, s) ==
    IF RegisterOutcome(fnd, r) = "match" THEN ps ELSE PeersInsert(ps, ch, r, s)

\* lines 88-116: the PeerMap after the Register
RegisterPeers(ps, fnd, ch, r, s) ==
    IF RegisterOutcome(fnd, r) = "wait" THEN PeersInsert(ps, ch, r, s) ELSE ps

\* lines 94-98, 104-107: the messages the Register puts on the channels
RegisterSends(q, fnd, r, s) ==
    CASE RegisterOutcome(fnd, r) = "match" ->
            TxSend(TxSend(q, s, Text(Matched)),
                   (CHOOSE p \in fnd : TRUE).tx, Text(Matched))
      [] RegisterOutcome(fnd, r) = "same_role" ->
            TxSend(q, s, Text(Error(ErrSameRole)))
      [] OTHER -> q

\* lines 88-117, still under the mutex, which the end of the arm releases;
\* the same-role arm returns from handle_connection (line 108)
RegisterAct(s) ==
    /\ pc[s] = "locked"
    /\ LET r == msg[s].msg.role
           ch == msg[s].msg.code_hash
           out == RegisterOutcome(found[s], r)
       IN /\ peers' = RegisterPeers(peers, found[s], ch, r, s)
          /\ sent' = RegisterSends(sent, found[s], r, s)
          /\ code_hash' = [code_hash EXCEPT ![s] =
                             IF out = "same_role" THEN @ ELSE ch]
          /\ role' = [role EXCEPT ![s] = IF out = "same_role" THEN @ ELSE r]
          /\ pc' = [pc EXCEPT ![s] =
                      IF out = "same_role" THEN "exited" ELSE "loop"]
    /\ SendRoom(sent')
    /\ lock' = NoSession
    /\ found' = [found EXCEPT ![s] = {}]
    /\ msg' = [msg EXCEPT ![s] = NoMsg]
    /\ UNCHANGED <<call, transferVars, fwd, ftask>>

\* lines 118-120: Ping before registration
PingReply(s) ==
    /\ pc[s] = "loop" /\ InOrder(s)
    /\ code_hash[s] = None
    /\ sent' = TxSend(sent, s, Text(Pong))
    /\ SendRoom(sent')
    /\ UNCHANGED <<call, transferVars, peers, lock, pc, msg, found, code_hash, role, fwd, ftask>>

\* lines 121-127: any other text before registration is answered with an
\* Error and handle_connection returns
ExpectedRegister(s, m) ==
    /\ pc[s] = "loop" /\ InOrder(s)
    /\ code_hash[s] = None
    /\ ~(FromJsonOk(m.msg) /\ m.msg.type \in {"register", "ping"})
    /\ sent' = TxSend(sent, s, Text(Error(ErrExpectedRegister)))
    /\ SendRoom(sent')
    /\ pc' = [pc EXCEPT ![s] = "exited"]
    /\ UNCHANGED <<call, transferVars, peers, lock, msg, found, code_hash, role, fwd, ftask>>

(***************************************************************************)
(* Binary frames, server.rs:131-144                                        *)
(***************************************************************************)
\* line 133: no code_hash yet, the frame is dropped
BinaryIgnored(s, m) ==
    /\ pc[s] = "loop" /\ InOrder(s)
    /\ code_hash[s] = None
    /\ m \in BinaryItems
    /\ UNCHANGED vars

\* lines 135-138: the sessions the frame is forwarded to
ForwardTargets(fnd, my_role) ==
    {p.tx : p \in {q \in fnd : my_role # None /\ q.role # my_role}}

\* line 139
BinarySends(q, fnd, my_role, d) ==
    IF ForwardTargets(fnd, my_role) = {} THEN q
    ELSE TxSend(q, CHOOSE t \in ForwardTargets(fnd, my_role) : TRUE, Binary(d))

\* lines 133-143: under the mutex, look the code_hash up and forward
BinaryForward(s, m) ==
    /\ pc[s] = "loop" /\ InOrder(s)
    /\ code_hash[s] # None
    /\ LockFree
    /\ sent' = BinarySends(sent, PeersGet(peers, code_hash[s]), role[s], m.data)
    /\ SendRoom(sent')
    /\ UNCHANGED <<call, transferVars, peers, lock, pc, msg, found, code_hash, role, fwd, ftask>>

\* line 148: websocket Ping, Pong and raw frames
OtherIgnored(s) ==
    /\ pc[s] = "loop" /\ InOrder(s)
    /\ UNCHANGED vars

(***************************************************************************)
(* The ways out of the loop, server.rs:69-70, 145-160.  The locals of a    *)
(* handler that has returned are gone.                                     *)
(***************************************************************************)
\* lines 153-157: the PeerMap after the cleanup of a handler
CleanupPeers(ps, ch) == IF ch # None THEN PeersRemove(ps, ch) ELSE ps

\* a Close frame (line 145) or the end of the stream (line 69) leaves the
\* loop; the cleanup takes the mutex when code_hash is set, then aborts
\* forward_task
Disconnect(s, m) ==
    /\ pc[s] = "loop" /\ InOrder(s)
    /\ code_hash[s] # None => LockFree
    /\ m \in LeaveItems
    /\ peers' = CleanupPeers(peers, code_hash[s])
    /\ ftask' = [ftask EXCEPT ![s] = "stopped"]
    /\ pc' = [pc EXCEPT ![s] = "done"]
    /\ code_hash' = [code_hash EXCEPT ![s] = None]
    /\ role' = [role EXCEPT ![s] = None]
    /\ UNCHANGED <<call, transferVars, lock, msg, found, sent, fwd>>

\* line 70: `msg?` returns the read error from handle_connection at once,
\* past the cleanup and past forward_task.abort()
ReadFail(s) ==
    /\ pc[s] = "loop" /\ InOrder(s)
    /\ pc' = [pc EXCEPT ![s] = "exited"]
    /\ code_hash' = [code_hash EXCEPT ![s] = None]
    /\ role' = [role EXCEPT ![s] = None]
    /\ UNCHANGED <<call, transferVars, peers, lock, msg, found, sent, fwd, ftask>>

(***************************************************************************)
(* forward_task, server.rs:57-63                                           *)
(***************************************************************************)
ForwardTask(s) ==
    /\ ftask[s] = "running"
    /\ fwd[s] < Len(sent[s])
    /\ fwd' = [fwd EXCEPT ![s] = @ + 1]
    /\ UNCHANGED <<call, transferVars, peers, lock, pc, msg, found, code_hash, role, sent, ftask>>

\* lines 59-61: the socket write fails and the task ends.  Modelled where
\* it changes what the handlers do: for a session whose handler is gone
\* and whose Peer, with its tx, is still in the PeerMap
ForwardFail(s) ==
    /\ ftask[s] = "running"
    /\ pc[s] = "exited"
    /\ fwd[s] < Len(sent[s])
    /\ \E p \in peers : p.tx = s
    /\ ftask' = [ftask EXCEPT ![s] = "stopped"]
    /\ UNCHANGED <<call, transferVars, peers, lock, pc, msg, found, code_hash, role, sent, fwd>>

(***************************************************************************)
(* The relayed transport of a client, relay/client.rs:72-108 behind        *)
(* Transport::send and Transport::receive (transport.rs:42-56)             *)
(***************************************************************************)
\* RelayConnection::receive: the data of the Binary items written to the
\* client's socket, in order; Matched, Pong and other texts are passed over
RelayedReceived(q, t) ==
    LET bin == SelectSeq(q[t], LAMBDA m : m.kind = "binary")
    IN [i \in DOMAIN bin |-> bin[i].data]

NextRelay ==
    \E s \in Sessions :
        \/ \E m \in TextItems : TextIgnored(s, m)
        \/ \E m \in RegisterItems : RegisterPanic(s, m)
        \/ \E m \in RegisterItems : RegisterLookup(s, m)
        \/ RegisterAct(s)
        \/ PingReply(s)
        \/ \E m \in {Text(Matched), Text(Invalid)} : ExpectedRegister(s, m)
        \/ \E m \in BinaryItems : BinaryIgnored(s, m)
        \/ \E m \in BinaryItems : BinaryForward(s, m)
        \/ OtherIgnored(s)
        \/ \E m \in LeaveItems : Disconnect(s, m)
        \/ ReadFail(s)
        \/ ForwardFail(s)

(***************************************************************************)
(* The direct transfer: send_file and receive_file (src/src/main.rs) over  *)
(* one TCP connection                                                      *)
(***************************************************************************)
\* protocol/mod.rs:4
PROTOCOL_VERSION == 1
\* the builds that may meet: this one and one with the next version
Versions == {PROTOCOL_VERSION, PROTOCOL_VERSION + 1}
Codes == {"red-fox", "blue-owl"}
Bytes == {"x", "y"}
RECURSIVE SeqsUpTo(_)
SeqsUpTo(n) ==
    IF n = 0 THEN {<<>>}
    ELSE SeqsUpTo(n - 1)
         \cup {Append(q, b) : q \in {p \in SeqsUpTo(n - 1) : Len(p) = n - 1},
                              b \in Bytes}
\* what the source file may hold
Files == SeqsUpTo(MaxFile)

\* protocol/mod.rs:8-40: the Message variants send_file and receive_file use
Hello(v) == [type |-> "hello", version |-> v]
Metadata(n) == [type |-> "metadata", size |-> n]

\* a Chunk that does not carry its place in the file
ChunkUnnumbered(i, d) == [type |-> "chunk", index |-> 0, data |-> d]

Chunk(i, d) == [type |-> "chunk", index |-> i, data |-> d]

Complete == [type |-> "complete"]
Ack == [type |-> "ack"]
Undecodable == [type |-> "undecodable"]

\* Message::to_bytes: the bincode bytes of a message
ToBytes(m) == [enc |-> "bincode", msg |-> m]
\* Message::from_bytes: the message of bincode bytes; a ciphertext (a random
\* nonce first) does not decode
FromBytes(b) == IF b.enc = "bincode" THEN b.msg ELSE Undecodable

\* a key that does not depend on the code
FromPasswordFixed(code) == [sha256 |-> "zap"]

\* Cipher::from_password: the key is the SHA-256 of the code
FromPassword(code) == [sha256 |-> code]

\* Cipher::encrypt: nonce and ciphertext with its tag under the key
Encrypt(key, b) == [enc |-> "sealed", key |-> key, plain |-> b]
DecryptError == [enc |-> "error"]
\* Cipher::decrypt: the plaintext if the tag verifies under the key
Decrypt(key, b) ==
    IF b.enc = "sealed" /\ b.key = key THEN b.plain ELSE DecryptError

Min(a, b) == IF a < b THEN a ELSE b
\* FileChunker::new
ChunkerNew(f) == [total_size |-> Len(f), bytes_read |-> 0]
\* a chunker that yields only whole chunks
NextChunkWholeOnly(c, f) ==
    IF c.bytes_read + CHUNK_SIZE > c.total_size THEN <<>>
    ELSE SubSeq(f, c.bytes_read + 1, c.bytes_read + CHUNK_SIZE)

\* FileChunker::next_chunk: the bytes read at the file position, <<>> for
\* Ok(None)
NextChunk(c, f) ==
    IF c.bytes_read >= c.total_size THEN <<>>
    ELSE SubSeq(f, c.bytes_read + 1, Min(c.bytes_read + CHUNK_SIZE, Len(f)))

\* FileWriter::new
WriterNew(n) == [bytes_written |-> 0, expected_size |-> n]

\* main.rs:93-94: after the Metadata the sender waits for the Ack
AfterMetadataNoWait == "open"
AfterMetadataSent == "ack_recv"

InitTransfer ==
    /\ file = <<>>
    /\ edits = 0
    /\ s_pc = "start"
    /\ s_code = None
    /\ s_version = PROTOCOL_VERSION
    /\ metadata = 0
    /\ chunker = ChunkerNew(<<>>)
    /\ chunk_index = 0
    /\ r_pc = "start"
    /\ r_code = None
    /\ r_version = PROTOCOL_VERSION
    /\ resume = FALSE
    /\ durable = 0
    /\ file_size = 0
    /\ writer = WriterNew(0)
    /\ sink = <<>>
    /\ s2r = <<>>
    /\ r2s = <<>>
    /\ s_got = 0
    /\ r_got = 0

SenderEnded == s_pc \in {"done", "failed"}
ReceiverEnded == r_pc \in {"done", "failed"}

\* another process rewrites the source file after get_file_metadata has
\* read its length; the sender looks at the file again only in
\* FileChunker::new and in next_chunk, so the rewrite is taken just before
\* one of them
FileModified(f) ==
    /\ s_pc \in {"open", "chunks"}
    /\ edits < MaxEdits
    /\ f # file
    /\ file' = f
    /\ edits' = edits + 1
    /\ UNCHANGED <<call, relayVars, s_pc, s_code, s_version, metadata, chunker,
                   chunk_index, r_pc, r_code, resume, durable, r_version, file_size, writer,
                   sink, s2r, r2s, s_got, r_got>>

\* main.rs:41-57: the code, the file the user names, get_file_metadata, listen.
\* The versions are only compared for equality, so the sender is run as this
\* build and the receiver as this build or the next.
SenderStart(c, v, f) ==
    /\ s_pc = "start"
    /\ file' = f
    /\ s_code' = c
    /\ s_version' = v
    /\ metadata' = Len(f)
    /\ s_pc' = "listen"
    /\ UNCHANGED <<call, relayVars, edits, chunker, chunk_index, r_pc, r_code, resume, durable,
                   r_version, file_size, writer, sink, s2r, r2s, s_got, r_got>>

\* main.rs:145-167 and 57: receive_file is called with its code and its
\* resume flag, the output file holding the first k chunks of an earlier
\* attempt; connect reaches the listening sender, accept returns
ReceiverConnect(c, v, k, rs) ==
    /\ r_pc = "start"
    /\ s_pc = "listen"
    /\ k * CHUNK_SIZE <= Len(file)
    /\ rs => k > 0
    /\ r_code' = c
    /\ r_version' = v
    /\ resume' = rs
    /\ durable' = k
    /\ sink' = SubSeq(file, 1, k * CHUNK_SIZE)
    /\ r_pc' = "hello_send"
    /\ s_pc' = "hello_send"
    /\ UNCHANGED <<call, relayVars, file, edits, s_code, s_version, metadata,
                   chunker, chunk_index, file_size, writer, s2r, r2s, s_got,
                   r_got>>

\* main.rs:61-62
SenderSendHello ==
    /\ s_pc = "hello_send"
    /\ s2r' = Append(s2r, ToBytes(Hello(s_version)))
    /\ s_pc' = "hello_recv"
    /\ UNCHANGED <<call, relayVars, file, edits, s_code, s_version, metadata,
                   chunker, chunk_index, r_pc, r_code, resume, durable, r_version, file_size,
                   writer, sink, r2s, s_got, r_got>>

\* a Hello taken whatever version it carries
HelloAnyVersion(m, own) == m.type = "hello"

\* main.rs:66-74 and 176-183: the match on the peer's Hello
HelloAccepted(m, own) == m.type = "hello" /\ m.version = own

\* main.rs:65-76
SenderRecvHello ==
    /\ s_pc = "hello_recv"
    /\ s_got < Len(r2s)
    /\ s_got' = s_got + 1
    /\ s_pc' = IF HelloAccepted(FromBytes(r2s[s_got + 1]), s_version)
               THEN "meta_send" ELSE "failed"
    /\ UNCHANGED <<call, relayVars, file, edits, s_code, s_version, metadata,
                   chunker, chunk_index, r_pc, r_code, resume, durable, r_version, file_size,
                   writer, sink, s2r, r2s, r_got>>

\* main.rs:79-91
SenderSendMetadata ==
    /\ s_pc = "meta_send"
    /\ s2r' = Append(s2r, Encrypt(FromPassword(s_code),
                                  ToBytes(Metadata(metadata))))
    /\ s_pc' = AfterMetadataSent
    /\ UNCHANGED <<call, relayVars, file, edits, s_code, s_version, metadata,
                   chunker, chunk_index, r_pc, r_code, resume, durable, r_version, file_size,
                   writer, sink, r2s, s_got, r_got>>

\* an Ack taken only if it comes sealed
AckSealedOnly(b) == b.enc = "sealed" /\ b.plain.msg.type = "ack"

\* main.rs:95-99: the Ack is decoded as it came off the wire
AckAccepted(b) == FromBytes(b).type = "ack"

\* main.rs:94-99
SenderRecvAck ==
    /\ s_pc = "ack_recv"
    /\ s_got < Len(r2s)
    /\ s_got' = s_got + 1
    /\ s_pc' = IF AckAccepted(r2s[s_got + 1]) THEN "open" ELSE "failed"
    /\ UNCHANGED <<call, relayVars, file, edits, s_code, s_version, metadata,
                   chunker, chunk_index, r_pc, r_code, resume, durable, r_version, file_size,
                   writer, sink, s2r, r2s, r_got>>

\* main.rs:103-104
SenderOpen ==
    /\ s_pc = "open"
    /\ chunker' = ChunkerNew(file)
    /\ chunk_index' = 0
    /\ s_pc' = "chunks"
    /\ UNCHANGED <<call, relayVars, file, edits, s_code, s_version, metadata, r_pc,
                   r_code, resume, durable, r_version, file_size, writer, sink, s2r, r2s,
                   s_got, r_got>>

\* main.rs:103: FileChunker::new fails, the file can no longer be opened
SenderOpenFails ==
    /\ s_pc = "open"
    /\ s_pc' = "failed"
    /\ UNCHANGED <<call, relayVars, file, edits, s_code, s_version, metadata,
                   chunker, chunk_index, r_pc, r_code, resume, durable, r_version, file_size,
                   writer, sink, s2r, r2s, s_got, r_got>>

\* main.rs:107-115: one turn of the loop
SenderSendChunk ==
    /\ s_pc = "chunks"
    /\ NextChunk(chunker, file) # <<>>
    /\ chunker' = [chunker EXCEPT
                      !.bytes_read = @ + Len(NextChunk(chunker, file))]
    /\ s2r' = Append(s2r, Encrypt(FromPassword(s_code),
                     ToBytes(Chunk(chunk_index, NextChunk(chunker, file)))))
    /\ chunk_index' = chunk_index + 1
    /\ UNCHANGED <<call, relayVars, file, edits, s_pc, s_code, s_version, metadata,
                   r_pc, r_code, resume, durable, r_version, file_size, writer, sink, r2s,
                   s_got, r_got>>

\* main.rs:107 and 135-142: next_chunk gave None
SenderSendComplete ==
    /\ s_pc = "chunks"
    /\ NextChunk(chunker, file) = <<>>
    /\ s2r' = Append(s2r, Encrypt(FromPassword(s_code), ToBytes(Complete)))
    /\ s_pc' = "done"
    /\ UNCHANGED <<call, relayVars, file, edits, s_code, s_version, metadata,
                   chunker, chunk_index, r_pc, r_code, resume, durable, r_version, file_size,
                   writer, sink, r2s, s_got, r_got>>

\* a sender that tells the peer of its failure before it gives up
SenderRecvFailsReports ==
    /\ s_pc \in {"hello_recv", "ack_recv"}
    /\ s_got = Len(r2s)
    /\ ReceiverEnded
    /\ s_pc' = "failed"
    /\ s2r' = Append(s2r, ToBytes(Error("receive failed")))
    /\ UNCHANGED <<call, relayVars, file, edits, s_code, s_version, metadata,
                   chunker, chunk_index, r_pc, r_code, resume, durable, r_version, file_size,
                   writer, sink, r2s, s_got, r_got>>

\* main.rs:65 and 94: conn.receive fails, the receiver has dropped the
\* connection and nothing is left to read
SenderRecvFails ==
    /\ s_pc \in {"hello_recv", "ack_recv"}
    /\ s_got = Len(r2s)
    /\ ReceiverEnded
    /\ s_pc' = "failed"
    /\ UNCHANGED <<call, relayVars, file, edits, s_code, s_version, metadata,
                   chunker, chunk_index, r_pc, r_code, resume, durable, r_version, file_size,
                   writer, sink, s2r, r2s, s_got, r_got>>

\* main.rs:89, 113 and 137: conn.send fails, the receiver has dropped the
\* connection
SenderSendFails ==
    /\ s_pc \in {"meta_send", "chunks"}
    /\ ReceiverEnded
    /\ s_pc' = "failed"
    /\ UNCHANGED <<call, relayVars, file, edits, s_code, s_version, metadata,
                   chunker, chunk_index, r_pc, r_code, resume, durable, r_version, file_size,
                   writer, sink, s2r, r2s, s_got, r_got>>

\* main.rs:170-171
ReceiverSendHello ==
    /\ r_pc = "hello_send"
    /\ r2s' = Append(r2s, ToBytes(Hello(r_version)))
    /\ r_pc' = "hello_recv"
    /\ UNCHANGED <<call, relayVars, file, edits, s_pc, s_code, s_version, metadata,
                   chunker, chunk_index, r_code, resume, durable, r_version, file_size, writer,
                   sink, s2r, s_got, r_got>>

\* main.rs:174-185
ReceiverRecvHello ==
    /\ r_pc = "hello_recv"
    /\ r_got < Len(s2r)
    /\ r_got' = r_got + 1
    /\ r_pc' = IF HelloAccepted(FromBytes(s2r[r_got + 1]), r_version)
               THEN "meta_recv" ELSE "failed"
    /\ UNCHANGED <<call, relayVars, file, edits, s_pc, s_code, s_version, metadata,
                   chunker, chunk_index, r_code, resume, durable, r_version, file_size, writer,
                   sink, s2r, r2s, s_got>>

\* main.rs:192-193 and 219-220: decrypt, then from_bytes; `?` on either
Opened(code, b) ==
    IF Decrypt(FromPassword(code), b) = DecryptError THEN Undecodable
    ELSE FromBytes(Decrypt(FromPassword(code), b))

\* main.rs:188-202
ReceiverRecvMetadata ==
    /\ r_pc = "meta_recv"
    /\ r_got < Len(s2r)
    /\ r_got' = r_got + 1
    /\ LET m == Opened(r_code, s2r[r_got + 1]) IN
          IF m.type = "metadata"
          THEN file_size' = m.size /\ r_pc' = "ack_send"
          ELSE file_size' = file_size /\ r_pc' = "failed"
    /\ UNCHANGED <<call, relayVars, file, edits, s_pc, s_code, s_version, metadata,
                   chunker, chunk_index, r_code, resume, durable, r_version, writer, sink, s2r,
                   r2s, s_got>>

\* main.rs:205-206: the Ack goes out as to_bytes gives it
ReceiverSendAck ==
    /\ r_pc = "ack_send"
    /\ r2s' = Append(r2s, ToBytes(Ack))
    /\ r_pc' = "create"
    /\ UNCHANGED <<call, relayVars, file, edits, s_pc, s_code, s_version, metadata,
                   chunker, chunk_index, r_code, resume, durable, r_version, file_size, writer,
                   sink, s2r, s_got, r_got>>

\* main.rs:209-214: FileWriter::new, File::create empties the output file
ReceiverCreate ==
    /\ r_pc = "create"
    /\ writer' = WriterNew(file_size)
    /\ sink' = <<>>
    /\ r_pc' = "loop"
    /\ UNCHANGED <<call, relayVars, file, edits, s_pc, s_code, s_version, metadata,
                   chunker, chunk_index, r_code, resume, durable, r_version, file_size, s2r,
                   r2s, s_got, r_got>>

\* main.rs:212: FileWriter::new fails, the output file cannot be created
ReceiverCreateFails ==
    /\ r_pc = "create"
    /\ r_pc' = "failed"
    /\ UNCHANGED <<call, relayVars, file, edits, s_pc, s_code, s_version, metadata,
                   chunker, chunk_index, r_code, resume, durable, r_version, file_size, writer,
                   sink, s2r, r2s, s_got, r_got>>

\* main.rs:222-253: the arm of the match in the receive loop
LoopArm(m) ==
    CASE m.type = "chunk" -> "write"
      [] m.type = "complete" -> "finalize"
      [] OTHER -> "fail"
\* FileWriter::write_chunk
WriteChunk(w, d) == [w EXCEPT !.bytes_written = @ + Len(d)]

\* main.rs:217-254: one turn of the loop; on Complete, writer.finalize() and
\* break
ReceiverRecvLoop ==
    /\ r_pc = "loop"
    /\ r_got < Len(s2r)
    /\ r_got' = r_got + 1
    /\ LET m == Opened(r_code, s2r[r_got + 1]) IN
          CASE LoopArm(m) = "write" ->
                  /\ writer' = WriteChunk(writer, m.data)
                  /\ sink' = sink \o m.data
                  /\ r_pc' = r_pc
            [] LoopArm(m) = "finalize" ->
                  /\ r_pc' = "done"
                  /\ UNCHANGED <<writer, sink>>
            [] OTHER ->
                  /\ r_pc' = "failed"
                  /\ UNCHANGED <<writer, sink>>
    /\ UNCHANGED <<call, relayVars, file, edits, s_pc, s_code, s_version, metadata,
                   chunker, chunk_index, r_code, resume, durable, r_version, file_size, s2r,
                   r2s, s_got>>

\* main.rs:174, 191 and 218: conn.receive fails, the sender has dropped the
\* connection and nothing is left to read
ReceiverRecvFails ==
    /\ r_pc \in {"hello_recv", "meta_recv", "loop"}
    /\ r_got = Len(s2r)
    /\ SenderEnded
    /\ r_pc' = "failed"
    /\ UNCHANGED <<call, relayVars, file, edits, s_pc, s_code, s_version, metadata,
                   chunker, chunk_index, r_code, resume, durable, r_version, file_size, writer,
                   sink, s2r, r2s, s_got, r_got>>

NextTransfer ==
    \/ \E f \in Files : FileModified(f)
    \/ \E c \in Codes, f \in Files : SenderStart(c, PROTOCOL_VERSION, f)
    \/ \E c \in Codes, v \in Versions, k \in 0..MaxFile, rs \in BOOLEAN :
          ReceiverConnect(c, v, k, rs)
    \/ SenderSendHello
    \/ SenderRecvHello
    \/ SenderSendMetadata
    \/ SenderRecvAck
    \/ SenderOpen
    \/ SenderOpenFails
    \/ SenderSendChunk
    \/ SenderSendComplete
    \/ SenderRecvFails
    \/ SenderSendFails
    \/ ReceiverSendHello
    \/ ReceiverRecvHello
    \/ ReceiverRecvMetadata
    \/ ReceiverSendAck
    \/ ReceiverCreate
    \/ ReceiverCreateFails
    \/ ReceiverRecvLoop
    \/ ReceiverRecvFails

(***************************************************************************)
(* The functions of crypto/mod.rs, network/mod.rs, transfer/mod.rs and     *)
(* relay/protocol.rs, each called on its own: `call` records the inputs    *)
(* of one call and what it returned.                                       *)
(***************************************************************************)
\* Each behaviour makes one call, from the state in which none was made.
NoCall == [fn |-> "none"]
InitCalls == call = NoCall

\* crypto/mod.rs:32-47: KeyExchange::new_sender / new_receiver
NewSender(code) == [password |-> code, identity |-> "zap-sender"]
NewReceiver(code) == [password |-> code, identity |-> "zap-receiver"]
\* crypto/mod.rs:50-54: KeyExchange::outbound_message, vec![]
OutboundMessage(kx) == <<>>
\* crypto/mod.rs:57-60: KeyExchange::finish, Ok(vec![0u8; 32])
Finish(kx, peer_message) == [i \in 1..32 |-> 0]

\* one key exchange between a sender holding cs and a receiver holding cr
KeyExchangeRun(cs, cr) ==
    /\ call = NoCall
    /\ call' = [fn |-> "key_exchange",
                sender_code |-> cs,
                receiver_code |-> cr,
                sender_secret |->
                    Finish(NewSender(cs), OutboundMessage(NewReceiver(cr))),
                receiver_secret |->
                    Finish(NewReceiver(cr), OutboundMessage(NewSender(cs)))]
    /\ UNCHANGED <<relayVars, transferVars>>

(***************************************************************************)
(* Cipher::encrypt and Cipher::decrypt on bytes (crypto/mod.rs:91-119).    *)
(* A sealed frame is the nonce followed by what ChaCha20Poly1305 returns:  *)
(* the plaintext under the key stream of (key, nonce), then the tag over   *)
(* (key, nonce, ciphertext).  Key stream and tag are taken as the ideal    *)
(* ones: only the same key, nonce and position give the byte back, only    *)
(* the same key, nonce and ciphertext give the tag.                        *)
(***************************************************************************)
\* crypto/mod.rs:10
NONCE_SIZE == 12
\* bytes of a Poly1305 tag (16 in the AEAD, scaled down)
TAG_SIZE == 2
\* what the rng may give for the nonce bytes
Nonces == {[i \in 1..NONCE_SIZE |-> b] : b \in Bytes}
\* the plaintexts sealed
Plaintexts == Files

NonceByte(b) == [kind |-> "nonce", flipped |-> FALSE, body |-> b]
CtByte(key, nonce, i, b) ==
    [kind |-> "ct", flipped |-> FALSE,
     body |-> [ks |-> <<key, nonce, i>>, pt |-> b]]
TagByte(key, nonce, ct, j) ==
    [kind |-> "tag", flipped |-> FALSE, body |-> <<key, nonce, ct, j>>]
SameByte(a, b) ==
    a.kind = b.kind /\ a.flipped = b.flipped /\ a.body = b.body

\* ChaCha20Poly1305::encrypt(nonce, data): ciphertext, then the tag
AeadCiphertext(key, nonce, data) ==
    [i \in 1..Len(data) |-> CtByte(key, nonce, i, data[i])]
AeadEncrypt(key, nonce, data) ==
    AeadCiphertext(key, nonce, data)
        \o [j \in 1..TAG_SIZE |->
               TagByte(key, nonce, AeadCiphertext(key, nonce, data), j)]

Ok(bytes) == [ok |-> TRUE, bytes |-> bytes]
Err(e) == [ok |-> FALSE, error |-> e]

\* the key stream taken off a ciphertext byte
Unmask(key, nonce, i, c) ==
    IF c.kind = "ct" /\ ~c.flipped /\ c.body.ks = <<key, nonce, i>>
    THEN c.body.pt ELSE "garbage"
\* the tag of c, less its last TAG_SIZE bytes, is in those bytes
TagVerifies(key, nonce, c) ==
    /\ Len(c) >= TAG_SIZE
    /\ \A j \in 1..TAG_SIZE :
          SameByte(c[Len(c) - TAG_SIZE + j],
                   TagByte(key, nonce, SubSeq(c, 1, Len(c) - TAG_SIZE), j))
\* a decryption that hands out the bytes without looking at the tag
AeadDecryptUnchecked(key, nonce, c) ==
    Ok([i \in 1..(IF Len(c) >= TAG_SIZE THEN Len(c) - TAG_SIZE ELSE 0) |->
           Unmask(key, nonce, i, c[i])])

\* ChaCha20Poly1305::decrypt(nonce, ciphertext), crypto/mod.rs:116-118
AeadDecrypt(key, nonce, c) ==
    IF TagVerifies(key, nonce, c)
    THEN Ok([i \in 1..(Len(c) - TAG_SIZE) |-> Unmask(key, nonce, i, c[i])])
    ELSE Err("Decryption failed")

\* an encrypt that sends the ciphertext without its nonce
CipherEncryptNoNonce(key, nonce_bytes, data) ==
    AeadEncrypt(key, [i \in 1..NONCE_SIZE |-> NonceByte(nonce_bytes[i])], data)

\* Cipher::encrypt, crypto/mod.rs:91-105, nonce_bytes being what the rng gave
CipherEncrypt(key, nonce_bytes, data) ==
    [i \in 1..NONCE_SIZE |-> NonceByte(nonce_bytes[i])]
        \o AeadEncrypt(key, [i \in 1..NONCE_SIZE |-> NonceByte(nonce_bytes[i])],
                       data)

\* Cipher::decrypt, crypto/mod.rs:108-119
CipherDecrypt(key, data) ==
    IF Len(data) < NONCE_SIZE THEN Err("Data too short to contain nonce")
    ELSE AeadDecrypt(key, SubSeq(data, 1, NONCE_SIZE),
                     SubSeq(data, NONCE_SIZE + 1, Len(data)))

\* a frame with one bit of byte i flipped, and a frame cut to n bytes
FlipBit(frame, i) == [frame EXCEPT ![i].flipped = TRUE]
Truncate(frame, n) == SubSeq(frame, 1, n)

\* encrypt, then decrypt under the same key
SealOpen(code, nonce_bytes, data) ==
    /\ call = NoCall
    /\ call' = [fn |-> "seal_open",
                code |-> code,
                plaintext |-> data,
                opened |-> CipherDecrypt(FromPassword(code),
                    CipherEncrypt(FromPassword(code), nonce_bytes, data))]
    /\ UNCHANGED <<relayVars, transferVars>>

\* encrypt, flip a bit of the frame, decrypt under the same key
OpenFlipped(code, nonce_bytes, data, i) ==
    /\ call = NoCall
    /\ i <= NONCE_SIZE + Len(data) + TAG_SIZE
    /\ call' = [fn |-> "open_altered",
                how |-> <<"flip", i>>,
                plaintext |-> data,
                opened |-> CipherDecrypt(FromPassword(code),
                    FlipBit(CipherEncrypt(FromPassword(code), nonce_bytes,
                                          data), i))]
    /\ UNCHANGED <<relayVars, transferVars>>

\* encrypt, cut the frame short, decrypt under the same key
OpenTruncated(code, nonce_bytes, data, n) ==
    /\ call = NoCall
    /\ n < NONCE_SIZE + Len(data) + TAG_SIZE
    /\ call' = [fn |-> "open_altered",
                how |-> <<"truncate", n>>,
                plaintext |-> data,
                opened |-> CipherDecrypt(FromPassword(code),
                    Truncate(CipherEncrypt(FromPassword(code), nonce_bytes,
                                           data), n))]
    /\ UNCHANGED <<relayVars, transferVars>>

\* encrypt under one key, decrypt under another
OpenOtherKey(code, other, nonce_bytes, data) ==
    /\ call = NoCall
    /\ other # code
    /\ call' = [fn |-> "open_altered",
                how |-> <<"key", other>>,
                plaintext |-> data,
                opened |-> CipherDecrypt(FromPassword(other),
                    CipherEncrypt(FromPassword(code), nonce_bytes, data))]
    /\ UNCHANGED <<relayVars, transferVars>>

(***************************************************************************)
(* Connection::send and Connection::receive (network/mod.rs:27-48): a      *)
(* frame on the TCP stream is a 4-byte big-endian length and the payload.  *)
(***************************************************************************)
\* network/mod.rs:7
MESSAGE_SIZE_BYTES == 4
\* network/mod.rs:41: 100 * 1024 * 1024
MaxMessage == 100 * 1024 * 1024
\* how many values the u32 of the length prefix holds (2^32, scaled down)
U32_RANGE == 8

\* network/mod.rs:28: data.len() as u32
AsU32(n) == n % U32_RANGE
\* u32::to_be_bytes
ToBeBytes(n) ==
    <<(n \div 16777216) % 256, (n \div 65536) % 256, (n \div 256) % 256,
      n % 256>>
\* u32::from_be_bytes
FromBeBytes(b) == ((b[1] * 256 + b[2]) * 256 + b[3]) * 256 + b[4]

\* a limit that also refuses a frame of exactly the maximum
TooLargeFromLimit(len) == len >= MaxMessage

\* network/mod.rs:41
TooLarge(len) == len > MaxMessage

\* network/mod.rs:37-45: the length is read and checked; the buffer is
\* allocated only for a length that passed
ReceiveHeader(len_bytes) ==
    IF TooLarge(FromBeBytes(len_bytes))
    THEN [ok |-> FALSE, error |-> "Message too large", allocated |-> 0]
    ELSE [ok |-> TRUE, len |-> FromBeBytes(len_bytes),
          allocated |-> FromBeBytes(len_bytes)]

\* Connection::send: what it writes to the stream
SendBytes(data) == ToBeBytes(AsU32(Len(data))) \o data

\* Connection::receive on the bytes the stream still holds: read_exact
\* fails when the stream ends before the bytes asked for
Receive(stream) ==
    IF Len(stream) < MESSAGE_SIZE_BYTES THEN Err("early eof")
    ELSE IF ~ReceiveHeader(SubSeq(stream, 1, MESSAGE_SIZE_BYTES)).ok
         THEN Err("Message too large")
    ELSE IF Len(stream) - MESSAGE_SIZE_BYTES
                < FromBeBytes(SubSeq(stream, 1, MESSAGE_SIZE_BYTES))
         THEN Err("early eof")
    ELSE Ok(SubSeq(stream, MESSAGE_SIZE_BYTES + 1,
                   MESSAGE_SIZE_BYTES
                       + FromBeBytes(SubSeq(stream, 1, MESSAGE_SIZE_BYTES))))

\* the stream after the sends of the messages in order
RECURSIVE StreamOf(_)
StreamOf(msgs) ==
    IF msgs = <<>> THEN <<>>
    ELSE SendBytes(Head(msgs)) \o StreamOf(Tail(msgs))

\* what successive receive calls return until the stream is used up or a
\* call fails
RECURSIVE ReceiveAll(_)
ReceiveAll(stream) ==
    IF stream = <<>> THEN <<>>
    ELSE IF ~Receive(stream).ok THEN <<Receive(stream)>>
    ELSE <<Receive(stream)>>
             \o ReceiveAll(SubSeq(stream,
                    MESSAGE_SIZE_BYTES + Len(Receive(stream).bytes) + 1,
                    Len(stream)))

\* the payloads sent: n bytes of one value
Payload(n, b) == [i \in 1..n |-> b]
SendPayloads == {Payload(n, b) : n \in 0..(U32_RANGE + 1), b \in {0, 1}}
\* the length prefixes tried: around the limit 0x06400000, and the extremes
PrefixSamples ==
    {<<b1, b2, b3, b4>> : b1 \in {0, 6, 7, 127}, b2 \in {0, 63, 64, 65, 255},
                          b3 \in {0, 1, 255}, b4 \in {0, 1, 255}}

\* receive reads a length prefix
ReceivePrefix(len_bytes) ==
    /\ call = NoCall
    /\ call' = [fn |-> "receive_header",
                len_bytes |-> len_bytes,
                result |-> ReceiveHeader(len_bytes)]
    /\ UNCHANGED <<relayVars, transferVars>>

\* one side sends the messages, the other calls receive until the stream
\* is used up
SendReceive(msgs) ==
    /\ call = NoCall
    /\ call' = [fn |-> "send_receive",
                sent |-> msgs,
                stream |-> StreamOf(msgs),
                received |-> ReceiveAll(StreamOf(msgs))]
    /\ UNCHANGED <<relayVars, transferVars>>

(***************************************************************************)
(* transfer/mod.rs:180-199: a chunker over a source file feeds a writer    *)
(* until next_chunk returns None.                                          *)
(***************************************************************************)
\* the loop "while let Some(chunk) = chunker.next_chunk() { write_chunk }":
\* the writer and the bytes of the output file when it ends
RECURSIVE ChunkLoop(_, _, _, _)
ChunkLoop(c, f, w, out) ==
    IF NextChunk(c, f) = <<>> THEN [writer |-> w, output |-> out]
    ELSE ChunkLoop([c EXCEPT !.bytes_read = @ + Len(NextChunk(c, f))], f,
                   WriteChunk(w, NextChunk(c, f)), out \o NextChunk(c, f))

ChunkerWriter(f) ==
    /\ call = NoCall
    /\ call' = [fn |-> "chunker_writer",
                source |-> f,
                result |-> ChunkLoop(ChunkerNew(f), f, WriterNew(Len(f)),
                                     <<>>)]
    /\ UNCHANGED <<relayVars, transferVars>>

(***************************************************************************)
(* relay/protocol.rs:46-49 hash_code and relay/client.rs:31-38, the        *)
(* registration a client sends.  BLAKE3 is modelled as collision-free: a   *)
(* table from the codes to the hex digests the relay part registers.       *)
(***************************************************************************)
Blake3Hex == "red-fox" :> "aaaaaaaa" @@ "blue-owl" :> "bbbbbbbb"

\* a digest that does not depend on the code
HashCodeConstant(code) == "aaaaaaaa"

\* hash_code: blake3::hash(code.as_bytes()).to_hex().to_string()
HashCode(code) == Blake3Hex[code]

\* relay/client.rs:32-36: the Register message built from role and code
RegisterMsg(r, code) == Register(r, HashCode(code))

\* two clients build their registrations
ClientsRegister(r1, c1, r2, c2) ==
    /\ call = NoCall
    /\ call' = [fn |-> "register",
                codes |-> <<c1, c2>>,
                msgs |-> <<RegisterMsg(r1, c1), RegisterMsg(r2, c2)>>]
    /\ UNCHANGED <<relayVars, transferVars>>

(***************************************************************************)
(* main.rs:217-254: the receive loop of receive_file on the messages a     *)
(* peer that holds the code may send, in any order.                        *)
(***************************************************************************)
\* the loop over the opened messages still to come: the writer, the bytes
\* of the output file and the indices of the chunks written, when the loop
\* breaks, fails or has read them all
RECURSIVE ReceiveLoop(_, _, _, _)
ReceiveLoop(msgs, w, out, idx) ==
    IF msgs = <<>> \/ LoopArm(Head(msgs)) # "write"
    THEN [writer |-> w, output |-> out, written |-> idx]
    ELSE ReceiveLoop(Tail(msgs), WriteChunk(w, Head(msgs).data),
                     out \o Head(msgs).data, Append(idx, Head(msgs).index))

LoopMessages == {Chunk(0, <<"x">>), Chunk(1, <<"y">>), Complete}

ReceiveMessages(msgs) ==
    /\ call = NoCall
    /\ call' = [fn |-> "receive_loop",
                msgs |-> msgs,
                result |-> ReceiveLoop(msgs, WriterNew(2), <<>>, <<>>)]
    /\ UNCHANGED <<relayVars, transferVars>>

NextCalls ==
    \/ \E cs \in Codes, cr \in Codes : KeyExchangeRun(cs, cr)
    \/ \E c \in Codes, n \in Nonces, d \in Plaintexts : SealOpen(c, n, d)
    \/ \E c \in Codes, n \in Nonces, d \in Plaintexts :
          \E i \in 1..(NONCE_SIZE + MaxFile + TAG_SIZE) : OpenFlipped(c, n, d, i)
    \/ \E c \in Codes, n \in Nonces, d \in Plaintexts :
          \E k \in 0..(NONCE_SIZE + MaxFile + TAG_SIZE) : OpenTruncated(c, n, d, k)
    \/ \E c \in Codes, o \in Codes, n \in Nonces, d \in Plaintexts :
          OpenOtherKey(c, o, n, d)
    \/ \E b \in PrefixSamples : ReceivePrefix(b)
    \/ \E f \in Files : ChunkerWriter(f)
    \/ \E m1 \in LoopMessages, m2 \in LoopMessages :
          ReceiveMessages(<<m1, m2>>)
    \/ \E r1 \in Roles, c1 \in Codes, r2 \in Roles, c2 \in Codes :
          ClientsRegister(r1, c1, r2, c2)
    \/ \E m1 \in SendPayloads : SendReceive(<<m1>>)
    \/ \E m1 \in SendPayloads, m2 \in SendPayloads : SendReceive(<<m1, m2>>)

Init == InitRelay /\ InitTransfer /\ InitCalls

SpecRelay == Init /\ [][NextRelay]_vars

SpecTransfer == Init /\ [][NextTransfer]_vars

\* The transfer with a source file nobody rewrites and a file system that
\* does not fail: the steps of send_file and receive_file alone.  A side
\* that can take a step takes one (the runtime polls a ready future, TCP
\* delivers what was sent).
NextReliable ==
    \/ \E c \in Codes, f \in Files : SenderStart(c, PROTOCOL_VERSION, f)
    \/ \E c \in Codes, v \in Versions, k \in 0..MaxFile, rs \in BOOLEAN :
          ReceiverConnect(c, v, k, rs)
    \/ SenderSendHello
    \/ SenderRecvHello
    \/ SenderSendMetadata
    \/ SenderRecvAck
    \/ SenderOpen
    \/ SenderSendChunk
    \/ SenderSendComplete
    \/ SenderRecvFails
    \/ ReceiverSendHello
    \/ ReceiverRecvHello
    \/ ReceiverRecvMetadata
    \/ ReceiverSendAck
    \/ ReceiverCreate
    \/ ReceiverRecvLoop

SpecReliable == Init /\ [][NextReliable]_vars /\ WF_vars(NextReliable)

SpecCalls == Init /\ [][NextCalls]_vars

\* The relay with the forwarding tasks: each forward_task may write the next
\* message of its channel to the socket at any time, or never.
NextForward ==
    \E s \in Sessions :
        \/ \E m \in TextItems : TextIgnored(s, m)
        \/ \E m \in RegisterItems : RegisterPanic(s, m)
        \/ \E m \in RegisterItems : RegisterLookup(s, m)
        \/ RegisterAct(s)
        \/ PingReply(s)
        \/ \E m \in {Text(Matched), Text(Invalid)} : ExpectedRegister(s, m)
        \/ \E m \in BinaryItems : BinaryIgnored(s, m)
        \/ \E m \in BinaryItems : BinaryForward(s, m)
        \/ OtherIgnored(s)
        \/ \E m \in LeaveItems : Disconnect(s, m)
        \/ ReadFail(s)
        \/ ForwardFail(s)
        \/ ForwardTask(s)

SpecForward == Init /\ [][NextForward]_vars

(***************************************************************************)
(* Properties of the relay                                                 *)
(***************************************************************************)
NMatched(s) == NumIn(sent[s], Text(Matched))
\* registered, connected, and never sent Matched
Waiting(s) == pc[s] = "loop" /\ code_hash[s] # None /\ NMatched(s) = 0
\* registered, connected, and sent Matched
IsMatched(s) == pc[s] = "loop" /\ code_hash[s] # None /\ NMatched(s) >= 1
Ended(s) == pc[s] \in {"done", "exited"}
\* the handler of s is about to take the arm `out` of its Register
RegisterTakes(s, out) ==
    /\ pc[s] = "locked"
    /\ RegisterOutcome(found[s], msg[s].msg.role) = out
\* the waiting registration a Register found
FoundWaiting(s) == \A p \in found[s] : Waiting(p.tx)
\* nothing of session t changes
SessionUntouched(t) ==
    /\ pc'[t] = pc[t] /\ code_hash'[t] = code_hash[t] /\ role'[t] = role[t]
    /\ sent'[t] = sent[t] /\ ftask'[t] = ftask[t] /\ fwd'[t] = fwd[t]

\* C1: whatever Registers and disconnects arrive, the PeerTable holds at
\* most one registration per codeHash: so at most one waiting registration,
\* and never two waiting registrations of one role under one codeHash.
C1_OneRegistrationPerHash ==
    \A ch \in CodeHashes :
        /\ Cardinality(PeersGet(peers, ch)) <= 1
        /\ \A p, q \in PeersGet(peers, ch) :
              (Waiting(p.tx) /\ Waiting(q.tx) /\ p.role = q.role) => p = q

\* a waiting registration is in the table after a session has disconnected
\* and a Register of the same role has been turned away
C1_Witness ==
    /\ \E p \in peers : Waiting(p.tx)
    /\ \E t \in Sessions : pc[t] = "done"
    /\ \E u \in Sessions : NumIn(sent[u], Text(Error(ErrSameRole))) = 1

\* C2: no session is ever sent a second Matched: a registration that has
\* been matched is not matched again by a later Register.
C2_MatchedAtMostOnce == \A s \in Sessions : NMatched(s) <= 1

\* C3: once two sessions are Matched with each other, a binary frame the
\* relay reads from either of them is put on the channel of the other.
C3_MatchedFramesForwarded ==
    \A s, t \in Sessions :
        (/\ s # t /\ LockFree
         /\ IsMatched(s) /\ IsMatched(t)
         /\ NMatched(s) = 1 /\ NMatched(t) = 1
         /\ code_hash[s] = code_hash[t] /\ role[s] # role[t]
         /\ \A u \in Sessions \ {s, t} : Fresh(u))
        => \A d \in Payloads :
              BinarySends(sent, PeersGet(peers, code_hash[s]), role[s], d)[t]
                  = Append(sent[t], Binary(d))

\* C4: right after a Register has matched a waiting registration of the
\* other role, the PeerTable has no entry for that codeHash.
C4_EntryRemovedAtMatch ==
    [][\A s \in Sessions :
          (RegisterTakes(s, "match") /\ FoundWaiting(s) /\ pc'[s] = "loop")
          => PeersGet(peers', msg[s].msg.code_hash) = {}]_vars

\* C5: when a Waiting session ends, by a Close frame, the end of the stream
\* or a read error, no registration of it is left in the PeerTable.
C5_WaitingEntryRemovedAtEnd ==
    [][\A s \in Sessions :
          (Waiting(s) /\ Ended(s)') => \A p \in peers' : p.tx # s]_vars

OnlyPair(ch, a, b) ==
    /\ a # b
    /\ pc[a] = "loop" /\ pc[b] = "loop"
    /\ code_hash[a] = ch /\ code_hash[b] = ch
    /\ role[a] # role[b]
    /\ \A t \in Sessions \ {a, b} :
          /\ pc[t] \in {"loop", "locked"}
          /\ code_hash[t] # ch

\* C7: of two sessions that register under one codeHash with opposite
\* roles, in whatever order their handlers get the mutex, one becomes the
\* waiting registration and the other matches it: both are sent Matched
\* exactly once and one of them is the entry of the table.
C7_ConcurrentPairMatches ==
    \A ch \in CodeHashes : \A a, b \in Sessions :
        OnlyPair(ch, a, b)
        => /\ NMatched(a) = 1 /\ NMatched(b) = 1
           /\ Cardinality({p \in PeersGet(peers, ch) : p.tx \in {a, b}}) = 1

\* two sessions of opposite roles have registered under one codeHash and
\* each has been sent its Matched
C7_Witness ==
    \E ch \in CodeHashes : \E a, b \in Sessions :
        /\ OnlyPair(ch, a, b)
        /\ NMatched(a) = 1 /\ NMatched(b) = 1

(***************************************************************************)
(* Properties of the transfer                                              *)
(***************************************************************************)
\* the message a frame carries, sealed or not
Carried(b) == IF b.enc = "sealed" THEN b.plain.msg ELSE b.msg
\* the frames sent so far that carry a message of type ty
FramesOf(q, ty) == {i \in DOMAIN q : Carried(q[i]).type = ty}

\* C8: the sender has sent no Chunk unless conn.receive has returned the
\* receiver's Ack to it, as the second and last frame it ever reads: the Ack
\* is a gate passed once.
C8_NoChunkBeforeAck ==
    /\ s_got <= 2
    /\ FramesOf(s2r, "chunk") # {}
       => /\ s_got = 2
          /\ AckAccepted(r2s[2])
          /\ \A i \in FramesOf(s2r, "chunk") :
                \A j \in FramesOf(s2r, "metadata") : j < i

\* the sender has passed the gate and sent chunk 0 and chunk 1
C8_Witness ==
    /\ Cardinality(FramesOf(s2r, "chunk")) = 2
    /\ s_got = 2

\* C9: the receiver is done, after Complete, only with as many bytes written
\* as the Metadata announced.
C9_CompleteChecksSize ==
    r_pc = "done" => writer.bytes_written = file_size

\* C10: every frame on the wire that is not sealed carries a Hello, and the
\* sender goes past its Ack gate only on a sealed frame.
C10_OnlyHelloUnsealed ==
    /\ \A i \in DOMAIN s2r : s2r[i].enc = "bincode" => s2r[i].msg.type = "hello"
    /\ \A i \in DOMAIN r2s : r2s[i].enc = "bincode" => r2s[i].msg.type = "hello"
    /\ s_pc \in {"open", "chunks", "done"} => r2s[2].enc = "sealed"

\* the two builds that have connected carry different protocol versions
VersionsDiffer == s_pc # "start" /\ r_pc # "start" /\ s_version # r_version
\* the messages of a frame log other than the Hello
DataFrames(q) == {i \in DOMAIN q : Carried(q[i]).type # "hello"}

\* C11: when the versions of the two Hellos differ, each side fails as soon
\* as it has read the peer's Hello, and neither sends or takes a Metadata,
\* Ack, Chunk or Complete: no frame but the Hellos is ever on the wire, and
\* neither side gets past its Hello exchange.
C11_VersionMismatchFatal ==
    VersionsDiffer
    => /\ DataFrames(s2r) = {} /\ DataFrames(r2s) = {}
       /\ s_pc \in {"listen", "hello_send", "hello_recv", "failed"}
       /\ r_pc \in {"hello_send", "hello_recv", "failed"}
       /\ s_got <= 1 /\ r_got <= 1
       /\ s_got = 1 => s_pc = "failed"
       /\ r_got = 1 => r_pc = "failed"

\* both sides have read a Hello of the other version and have failed
C11_Witness ==
    /\ VersionsDiffer
    /\ s_got = 1 /\ r_got = 1
    /\ s_pc = "failed" /\ r_pc = "failed"

\* sender and receiver have connected with the same code and version
Matching ==
    /\ s_pc # "start" /\ r_pc # "start"
    /\ s_code = r_code /\ s_version = r_version
\* both sides have returned Ok with as many bytes written as announced
Completed ==
    /\ s_pc = "done" /\ r_pc = "done"
    /\ writer.bytes_written = metadata
    /\ file_size = metadata

\* C12: with matching codes and versions, a stable source file and a
\* transport that delivers, the transfer of a file of announced size N
\* always ends with sender and receiver both done and N bytes written; the
\* two Hellos sent before either side reads do not block it.
C12_TransferCompletes == Matching ~> Completed

\* the one-chunk run: Hello both ways, Metadata, one Ack, Chunk 0 holding
\* the whole file, Complete, and both sides done
C12_Witness ==
    /\ Matching /\ Completed
    /\ metadata = CHUNK_SIZE
    /\ r2s = <<ToBytes(Hello(r_version)), ToBytes(Ack)>>
    /\ s2r = <<ToBytes(Hello(s_version)),
               Encrypt(FromPassword(s_code), ToBytes(Metadata(metadata))),
               Encrypt(FromPassword(s_code), ToBytes(Chunk(0, file))),
               Encrypt(FromPassword(s_code), ToBytes(Complete))>>

(***************************************************************************)
(* Properties of the library functions                                     *)
(***************************************************************************)
\* C13: a sender-role and a receiver-role key exchange end with the same
\* shared secret if they were run with the same code, and with different
\* secrets if the codes differ.
C13_SecretBoundToCode ==
    call.fn = "key_exchange"
    => (call.sender_secret = call.receiver_secret
            <=> call.sender_code = call.receiver_code)

\* the receiver was started with --resume on an output file that holds the
\* chunks 0..durable-1 of the source
Resuming == r_pc # "start" /\ resume /\ durable > 0

\* C14: a receiver that resumes with chunks 0..k-1 written asks for chunk k
\* with Resume, the sender sends no chunk before chunk k, the bytes already
\* written stay in the output file, and the finished file equals the source.
C14_ResumeFromChunk ==
    Resuming
    => /\ \A i \in FramesOf(s2r, "chunk") : Carried(s2r[i]).index >= durable
       /\ FramesOf(s2r, "chunk") # {} => FramesOf(r2s, "resume") # {}
       /\ Len(sink) >= durable * CHUNK_SIZE
       /\ (r_pc = "done" /\ edits = 0) => sink = file

\* C15: for every key and every plaintext, the empty one included, decrypt
\* of encrypt under the same key gives back exactly the plaintext.
C15_DecryptOfEncrypt ==
    call.fn = "seal_open" => call.opened = Ok(call.plaintext)

\* the empty plaintext has been sealed and opened
C15_Witness ==
    /\ call.fn = "seal_open"
    /\ call.plaintext = <<>>
    /\ call.opened.ok

\* C16: a sealed frame with a bit flipped in nonce, ciphertext or tag, or
\* cut short (to fewer than the 12 nonce bytes too), or opened under another
\* key, makes decrypt return an error: never a plaintext.
C16_AlteredFrameRejected ==
    call.fn = "open_altered" => ~call.opened.ok

\* a frame cut inside its nonce has been refused
C16_Witness ==
    /\ call.fn = "open_altered"
    /\ call.how = <<"truncate", NONCE_SIZE - 1>>
    /\ call.opened = Err("Data too short to contain nonce")

\* C17: receive refuses a frame as too large, with no payload buffer
\* allocated, exactly when its big-endian length prefix is above 100 MiB
\* (104857600); a prefix of 104857600 or less is accepted and a buffer of
\* exactly that length is read.
C17_TooLargeAbove100MiB ==
    call.fn = "receive_header"
    => /\ ~call.result.ok <=> FromBeBytes(call.len_bytes) > 104857600
       /\ ~call.result.ok
          => /\ call.result.error = "Message too large"
             /\ call.result.allocated = 0
       /\ call.result.ok
          => call.result.allocated = FromBeBytes(call.len_bytes)

\* a prefix of exactly 100 MiB has been accepted
C17_Witness ==
    /\ call.fn = "receive_header"
    /\ call.len_bytes = <<6, 64, 0, 0>>
    /\ call.result.ok /\ call.result.len = 104857600

\* C18: the byte strings that successive receive calls return are the byte
\* strings passed to the peer's successive send calls, each whole and in
\* order.
C18_ReceivedEqualsSent ==
    call.fn = "send_receive"
    => /\ Len(call.received) = Len(call.sent)
       /\ \A i \in DOMAIN call.sent : call.received[i] = Ok(call.sent[i])

\* C19: when every chunk that next_chunk yields is written to a FileWriter
\* in order until next_chunk returns None, the output file holds the bytes
\* of the source and the writer's bytes_written is the source size.
C19_ChunksReproduceSource ==
    call.fn = "chunker_writer"
    => /\ call.result.output = call.source
       /\ call.result.writer.bytes_written = Len(call.source)

\* a source of one whole chunk and a partial one has been copied
C19_Witness ==
    /\ call.fn = "chunker_writer"
    /\ Len(call.source) > CHUNK_SIZE
    /\ Len(call.source) % CHUNK_SIZE # 0
    /\ call.result.output = call.source

C21_RelayedLikeDirect ==
    \A ch \in CodeHashes : \A a, b \in Sessions :
        (/\ OnlyPair(ch, a, b) /\ LockFree
         /\ NMatched(a) = 1 /\ NMatched(b) = 1
         /\ Peer(ch, role[a], a) \in peers)
        => \A d \in Payloads :
              /\ RelayedReceived(
                     BinarySends(sent, PeersGet(peers, ch), role[b], d), a)
                    = Append(RelayedReceived(sent, a), d)
              /\ RelayedReceived(
                     BinarySends(sent, PeersGet(peers, ch), role[a], d), b)
                    = Append(RelayedReceived(sent, b), d)

\* the sessions whose binary frames the relay puts on the channel of t
Emitters(t) ==
    {s \in Sessions \ {t} :
        /\ pc[s] = "loop" /\ code_hash[s] # None
        /\ t \in ForwardTargets(PeersGet(peers, code_hash[s]), role[s])}

\* C22: the binary frames delivered to a session are those of its one
\* partner, in the order it emitted them: at no time do the frames of two
\* different sessions go to the channel of the same session, where they
\* would be delivered interleaved.
C22_FramesOfOnePartner ==
    \A t \in Sessions : Cardinality(Emitters(t)) <= 1

\* C23: the cleanup of a session that disconnects removes from the
\* PeerTable no registration but its own: every Peer of another session,
\* its partner's or a waiting one under the same codeHash, is still there.
C23_CleanupOwnEntryOnly ==
    [][\A s \in Sessions :
          (pc[s] = "loop" /\ pc'[s] = "done")
          => \A p \in peers : p.tx # s => p \in peers']_vars

\* C24: a session that has registered and has not been sent Matched has no
\* binary frame on its channel.
C24_NoFrameWhileWaiting ==
    \A t \in Sessions :
        NMatched(t) = 0 => \A i \in DOMAIN sent[t] : sent[t][i].kind # "binary"

\* C25: while a session is Matched its Ping is answered with a Pong on its
\* own channel.
C25_PingPongWhileMatched ==
    \A s \in Sessions :
        (IsMatched(s) /\ SendRoom(TxSend(sent, s, Text(Pong))))
        => ENABLED PingReply(s)

\* C26: the chunks the receive loop writes to the file are those of index
\* 0, 1, 2, ... in this order: a Chunk whose index is not the next expected
\* one is not written.
C26_WritesInIndexOrder ==
    call.fn = "receive_loop"
    => \A k \in DOMAIN call.result.written : call.result.written[k] = k - 1

\* the chunk frames among the first n frames of the log q
ChunksBefore(q, n) == {i \in FramesOf(q, "chunk") : i <= n}

\* C27: the sender sends its chunks one at a time, the first with index 0
\* and each with the index of the one before plus 1: a step that sends a
\* Chunk sends that one frame, whose index is the number of chunks sent
\* before it, and leaves chunk_index at the index of the next.
C27_ChunksInIndexOrder ==
    [][(s2r' # s2r /\ Carried(s2r'[Len(s2r')]).type = "chunk")
       => /\ s2r' = Append(s2r, s2r'[Len(s2r')])
          /\ Carried(s2r'[Len(s2r')]).index
                = Cardinality(ChunksBefore(s2r, Len(s2r)))
          /\ chunk_index = Cardinality(ChunksBefore(s2r, Len(s2r)))
          /\ chunk_index' = chunk_index + 1]_vars

\* chunks 0 and 1 have been sent, in this order
C27_Witness ==
    \E i, j \in FramesOf(s2r, "chunk") :
        /\ i < j
        /\ Carried(s2r[i]).index = 0 /\ Carried(s2r[j]).index = 1
        /\ chunk_index = 2

\* the lengths of the chunk payloads in the frame log q, added up
RECURSIVE ChunkBytes(_)
ChunkBytes(q) ==
    IF q = <<>> THEN 0
    ELSE (IF Carried(Head(q)).type = "chunk" THEN Len(Carried(Head(q)).data)
          ELSE 0) + ChunkBytes(Tail(q))

\* C28: when the sender has sent Complete, the payloads of the chunks it
\* sent add up to the size its Metadata announced, and Complete is the last
\* frame it sent.
C28_CompleteAfterAllChunks ==
    FramesOf(s2r, "complete") # {}
    => /\ ChunkBytes(s2r) = metadata
       /\ FramesOf(s2r, "complete") = {Len(s2r)}

\* C29: a side that fails has failed for good.  The step in which send_file
\* fails sends nothing, and from then on the sender sends nothing, reads
\* nothing and stays failed; the step in which receive_file fails sends
\* nothing and writes nothing, and from then on the receiver sends nothing,
\* writes nothing, reads nothing again and stays failed, so it is never
\* done.
C29_FailureAbsorbing ==
    [][/\ s_pc' = "failed" => s2r' = s2r
       /\ s_pc = "failed" => s_pc' = "failed" /\ s_got' = s_got
       /\ r_pc' = "failed" => r2s' = r2s /\ sink' = sink /\ writer' = writer
       /\ r_pc = "failed" => r_pc' = "failed" /\ r_got' = r_got]_vars

\* the receiver has failed to open the Metadata sealed under another code,
\* and the sender has then failed on its read of the Ack
C29_Witness ==
    /\ s_code # r_code
    /\ r_pc = "failed" /\ r_got = 2
    /\ s_pc = "failed" /\ s_got = 1

\* sender and receiver have connected with different transfer codes
CodesDiffer == s_pc # "start" /\ r_pc # "start" /\ s_code # r_code

\* C30: when the codes differ, the receiver fails on the Metadata, the
\* first sealed frame it reads: it sends no Ack, never creates or writes
\* the output file, and the sender, left without an Ack, never opens the
\* file and sends no Chunk and no Complete.
C30_CodeMismatchAtMetadata ==
    CodesDiffer
    => /\ r_got <= 2 /\ (r_got = 2 => r_pc = "failed")
       /\ r_pc \in {"hello_send", "hello_recv", "meta_recv", "failed"}
       /\ FramesOf(r2s, "ack") = {}
       /\ writer = WriterNew(0) /\ Len(sink) = durable * CHUNK_SIZE
       /\ s_pc \notin {"open", "chunks", "done"}
       /\ FramesOf(s2r, "chunk") = {} /\ FramesOf(s2r, "complete") = {}

\* the receiver has failed on the Metadata of a sender with another code,
\* which is still waiting for the Ack
C30_Witness ==
    /\ CodesDiffer /\ s_version = r_version
    /\ FramesOf(s2r, "metadata") = {2}
    /\ r_got = 2 /\ r_pc = "failed"
    /\ s_pc = "ack_recv" /\ r2s = <<ToBytes(Hello(r_version))>>

\* the frames of the log q sealed under a key
Sealed(q) == {i \in DOMAIN q : q[i].enc = "sealed"}

\* C31: once a Metadata is on the wire, each side has sent one KeyExchange
\* frame before it, and every sealed frame is keyed by the secret that
\* KeyExchange::finish gave the sender for the receiver's payload.
C31_KeyExchangeBeforeMetadata ==
    FramesOf(s2r, "metadata") # {}
    => /\ Cardinality(FramesOf(s2r, "key_exchange")) = 1
       /\ Cardinality(FramesOf(r2s, "key_exchange")) = 1
       /\ \A i \in FramesOf(s2r, "key_exchange") :
             \A j \in FramesOf(s2r, "metadata") : i < j
       /\ \A i \in Sealed(s2r) :
             s2r[i].key = Finish(NewSender(s_code),
                                 OutboundMessage(NewReceiver(r_code)))

\* the bound of the runs explored leaves room for the queues q
RoomFor(q) == PongsSent(q) <= MaxPing /\ OthersSent(q) <= MaxSent

\* C32: however many messages wait undelivered on any session's channel,
\* the handler that holds the PeerTable lock can finish its Register and
\* release the lock at once, and whenever the lock is free a session can
\* register and a registered session's binary frame is processed: no step
\* under the lock waits for a socket write.
C32_UndrainedNeverBlocks ==
    \A s \in Sessions :
        /\ lock = s
           => /\ pc[s] = "locked"
              /\ RoomFor(RegisterSends(sent, found[s], msg[s].msg.role, s))
                 => ENABLED RegisterAct(s)
        /\ (LockFree /\ pc[s] = "loop" /\ InOrder(s) /\ code_hash[s] = None)
           => ENABLED RegisterLookup(s, Text(Register("sender", "aaaaaaaa")))
        /\ (LockFree /\ pc[s] = "loop" /\ InOrder(s) /\ code_hash[s] # None)
           => \A d \in Payloads :
                 RoomFor(BinarySends(sent, PeersGet(peers, code_hash[s]),
                                     role[s], d))
                 => ENABLED BinaryForward(s, Binary(d))

\* a session's socket has taken none of the two messages on its channel,
\* and a session matched after the first of them was queued has had its
\* own Matched delivered
C32_Witness ==
    \E t, u \in Sessions :
        /\ t # u
        /\ ftask[t] = "running" /\ fwd[t] = 0 /\ Len(sent[t]) >= 2
        /\ IsMatched(u) /\ fwd[u] = Len(sent[u])
        /\ sent[t][1] = Text(Matched)

\* C33: a session that has not registered answers a first text that is no
\* Register and no Ping with an Error, and no Register, however short its
\* code_hash, makes its handler end without a reply.
C33_MalformedFirstAnswered ==
    \A s \in Sessions :
        (/\ pc[s] = "loop" /\ InOrder(s) /\ code_hash[s] = None
         /\ RoomFor(TxSend(sent, s, Text(Error(ErrExpectedRegister)))))
        => /\ \A m \in {Text(Matched), Text(Invalid)} :
                 ENABLED ExpectedRegister(s, m)
           /\ \A m \in RegisterItems : ~ENABLED RegisterPanic(s, m)

\* C34: the length prefix that send writes is the length of the payload it
\* was given, so the first frame the peer's receive takes from the stream
\* is that payload, whole.
C34_PrefixIsLength ==
    call.fn = "send_receive"
    => /\ FromBeBytes(SubSeq(call.stream, 1, MESSAGE_SIZE_BYTES))
             = Len(call.sent[1])
       /\ Receive(call.stream) = Ok(call.sent[1])

====
